---- MODULE Spec2Model ----
(***************************************************************************)
(* A model of LingChat's conversational memory (ling_chat/core/RAG.py):    *)
(* one RAGSystem instance of one character, its session files on disk, its *)
(* persistent vector collection, the in-memory session maps, and the       *)
(* public operations initialize, add_messages_to_index,                    *)
(* add_session_to_history, get_relevant_messages and prepare_rag_messages. *)
(* Every operation is one action; what the embedding service and the       *)
(* vector store answer is chosen by the environment.                       *)
(*                                                                         *)
(* Python values: None is the string "<None>", which is no member of any   *)
(* pool of contents, roles or file names; a missing dictionary key and a   *)
(* key holding None are not told apart.  Non-ASCII literals of the source  *)
(* are transliterated.                                                     *)
(***************************************************************************)
EXTENDS Integers, Sequences, FiniteSets, TLC

VARIABLES
  USE_RAG,                  \* config.USE_RAG
  chroma_collection,        \* self.chroma_collection: None or the open handle
  store,                    \* the persistent collection: id -> entry
  files,                    \* the session files of the character: name -> JSON list
  historical_sessions_map,  \* self.historical_sessions_map
  flat_historical_messages, \* self.flat_historical_messages
  phase,                    \* "new" until initialize() has run, then "ok" / "failed"
  health_ok,                \* the embedding service has answered a probe with 200, ok
  op,                       \* the operation that ran last
  arg,                      \* its argument
  ret,                      \* what it returned
  raised,                   \* it raised to its caller instead of returning
  cfg,                      \* the configuration values it read
  trace,                    \* what it did on the way (external calls, blocks, reads)
  repeated,                 \* it indexed again the list the call before it indexed
  last_indexed,             \* the list the latest call indexed with success, if the
                            \* collection has not been written since; else <<>>
  saves,                    \* add_session_to_history calls so far
  character_id,             \* self.character_id of the instance that acts
  others,                   \* the collections, history directories and instances
                            \* of the other characters
  saving                    \* an add_session_to_history call in progress in
                            \* another thread: its next step and its locals

vars == <<USE_RAG, chroma_collection, store, files, historical_sessions_map,
          flat_historical_messages, phase, health_ok, op, arg, ret, raised,
          cfg, trace, repeated, last_indexed, saves, character_id, others, saving>>

\* what the operations of one instance, called one after the other, leave alone
beyond == <<character_id, others, saving>>

None == "<None>"
Collection == "collection"

\* ------------------------------------------------------------------ bounds

MaxSessionLen == 2
MaxSaves == 1
MaxSavesSameSecond == 2
MaxRetrievalCount == 2
MaxMultiplier == 2
MaxContextBefore == 2
MaxContextAfter == 1

\* ------------------------------------------------------- program constants

ID_CONTENT_PREFIX == 100
UPSERT_BATCH_SIZE == 500
DEFAULT_RETRIEVAL_COUNT == 3
DEFAULT_CANDIDATE_MULTIPLIER == 3

\* ------------------------------------------------------------- input pools

Min(a, b) == IF a <= b THEN a ELSE b
Max(a, b) == IF a >= b THEN a ELSE b

Range(s) == {s[i] : i \in DOMAIN s}

F1 == "session_20250102_093000.json"
F2 == "chat.json"
FileNames == {F1, F2}
\* what datetime.now() can name a new session file
NowNames == {F1}

Msg(r, c) == [role |-> r, content |-> c]

\* the kinds of message: two well-formed ones, a system message, one without
\* a role, one with empty content
A == Msg("user", "a")
B == Msg("assistant", "b")
S == Msg("system", "a")
N == Msg(None, "b")
E == Msg("user", "")
\* one without content
NoContent == Msg("assistant", None)

SeqsUpTo(P, n) == UNION {[1..k -> P] : k \in 0..n}

\* the non-empty message lists over a pool
SessionsOver(P) == SeqsUpTo(P, MaxSessionLen) \ {<<>>}

\* -------------------------------------------------- strings and conversions

Digits == {"0", "1", "2", "3", "4", "5", "6", "7", "8", "9"}

DigitVal(c) ==
  CASE c = "0" -> 0 [] c = "1" -> 1 [] c = "2" -> 2 [] c = "3" -> 3
    [] c = "4" -> 4 [] c = "5" -> 5 [] c = "6" -> 6 [] c = "7" -> 7
    [] c = "8" -> 8 [] OTHER -> 9

DigitStr(d) ==
  CASE d = 0 -> "0" [] d = 1 -> "1" [] d = 2 -> "2" [] d = 3 -> "3"
    [] d = 4 -> "4" [] d = 5 -> "5" [] d = 6 -> "6" [] d = 7 -> "7"
    [] d = 8 -> "8" [] OTHER -> "9"

\* str(i) of a natural number
RECURSIVE IntStr(_)
IntStr(i) == IF i < 10 THEN DigitStr(i) ELSE IntStr(i \div 10) \o DigitStr(i % 10)

\* int(s) of a string of digits
RECURSIVE StrInt(_)
StrInt(s) ==
  IF Len(s) = 0 THEN 0
  ELSE 10 * StrInt(SubSeq(s, 1, Len(s) - 1)) + DigitVal(SubSeq(s, Len(s), Len(s)))

AllDigits(s) == \A i \in 1..Len(s) : SubSeq(s, i, i) \in Digits

\* s[:n]
Prefix(s, n) == SubSeq(s, 1, Min(n, Len(s)))

IsSpace(c) == c \in {" ", "\t", "\n"}

\* a test of the string as it is, without strip()
Strip_nothing(s) == s

\* s.strip()
RECURSIVE Strip(_)
Strip(s) ==
  IF Len(s) = 0 THEN s
  ELSE IF IsSpace(SubSeq(s, 1, 1)) THEN Strip(SubSeq(s, 2, Len(s)))
  ELSE IF IsSpace(SubSeq(s, Len(s), Len(s))) THEN Strip(SubSeq(s, 1, Len(s) - 1))
  ELSE s

\* ------------------------------------------- _parse_session_time_from_filename

UNKNOWN_TIME == "unknown time"

DaysInMonth(y, m) ==
  IF m \in {4, 6, 9, 11} THEN 30
  ELSE IF m = 2 THEN (IF (y % 4 = 0 /\ y % 100 # 0) \/ y % 400 = 0 THEN 29 ELSE 28)
  ELSE 31

\* the token at offset k matches session_(\d{8}_\d{6})\.json
TokenAt(filename, k) ==
  /\ k + 28 - 1 <= Len(filename)
  /\ SubSeq(filename, k, k + 7) = "session_"
  /\ AllDigits(SubSeq(filename, k + 8, k + 15))
  /\ SubSeq(filename, k + 16, k + 16) = "_"
  /\ AllDigits(SubSeq(filename, k + 17, k + 22))
  /\ SubSeq(filename, k + 23, k + 27) = ".json"

\* datetime.strptime(token, "%Y%m%d_%H%M%S") succeeds
ValidStamp(t) ==
  LET y  == StrInt(SubSeq(t, 1, 4))
      mo == StrInt(SubSeq(t, 5, 6))
      d  == StrInt(SubSeq(t, 7, 8))
      h  == StrInt(SubSeq(t, 10, 11))
      mi == StrInt(SubSeq(t, 12, 13))
      s  == StrInt(SubSeq(t, 14, 15))
  IN  /\ y >= 1
      /\ mo \in 1..12
      /\ d \in 1..DaysInMonth(y, mo)
      /\ h \in 0..23
      /\ mi \in 0..59
      /\ s \in 0..61

\* strftime("%Y nian %m yue %d ri %H:%M")
FormatStamp(t) ==
  SubSeq(t, 1, 4) \o "nian" \o SubSeq(t, 5, 6) \o "yue" \o SubSeq(t, 7, 8) \o "ri "
    \o SubSeq(t, 10, 11) \o ":" \o SubSeq(t, 12, 13)

parse_session_time_from_filename(filename) ==
  LET hits == {k \in 1..Len(filename) : TokenAt(filename, k)}
  IN  IF hits = {} THEN UNKNOWN_TIME
      ELSE LET k == CHOOSE h \in hits : \A g \in hits : h <= g
               t == SubSeq(filename, k + 8, k + 22)
           IN  IF ValidStamp(t) THEN FormatStamp(t) ELSE UNKNOWN_TIME

\* ------------------------------------------------------------ the messages

\* msg.copy() with _source_file, _original_idx and _session_timestamp_str set
WithMetadata(msg, filename, idx) ==
  [role |-> msg.role, content |-> msg.content, _source_file |-> filename,
   _original_idx |-> idx,
   _session_timestamp_str |-> parse_session_time_from_filename(filename)]

\* the messages numbered from one
messages_with_metadata_from_one(filename, session) ==
  [i \in 1..Len(session) |-> WithMetadata(session[i], filename, i)]

\* the messages of a session as the loops of load_historical_data and
\* add_session_to_history build them
messages_with_metadata(filename, session) ==
  [i \in 1..Len(session) |-> WithMetadata(session[i], filename, i - 1)]

\* ------------------------------------------------------- _get_embeddings

\* What the embedding service answers to one POST:
\*   ok               200, {"embeddings": [one vector per text]}
\*   transport_error  no answer (connection refused, timeout)
\*   http_error       a status that raise_for_status() rejects
\*   no_embeddings    200, a JSON object without "embeddings"
\*   empty_list       200, {"embeddings": []}
\*   not_object       200, a JSON value that is no object (a list, null)
EmbedOutcomes ==
  {"ok", "transport_error", "http_error", "no_embeddings", "empty_list", "not_object"}

\* a client that puts zero vectors in the place of a failed answer
get_embeddings_zero_vectors(texts, outcome) ==
  [ value |-> IF Len(texts) = 0 THEN "empty" ELSE "vectors",
    raised |-> FALSE,
    requests |-> IF Len(texts) = 0 THEN 0 ELSE 1 ]

\* a client that sends the request a second time when the first one fails
get_embeddings_retry(texts, outcome) ==
  IF Len(texts) = 0 THEN [value |-> "empty", raised |-> FALSE, requests |-> 0]
  ELSE [ value |-> CASE outcome = "ok" -> "vectors"
                     [] outcome = "empty_list" -> "empty"
                     [] OTHER -> None,
         raised |-> (outcome = "not_object"),
         requests |-> IF outcome = "ok" THEN 1 ELSE 2 ]

\* the value returned: "vectors", "empty" ([]) or None; or the AttributeError
\* of data.get on a value that is no dict, which no except clause catches
get_embeddings(texts, outcome) ==
  IF Len(texts) = 0 THEN [value |-> "empty", raised |-> FALSE, requests |-> 0]
  ELSE [ value |-> CASE outcome = "ok" -> "vectors"
                     [] outcome = "empty_list" -> "empty"
                     [] OTHER -> None,
         raised |-> (outcome = "not_object"),
         requests |-> 1 ]

\* ------------------------------------------------- add_messages_to_index

\* uuid.uuid5(NAMESPACE_DNS, name): a hash of the name, taken as injective
uuid5(name) == "uuid5:" \o name

message_id_str(source_file, original_idx, role, content) ==
  source_file \o "_" \o IntStr(original_idx) \o "_" \o role \o "_"
    \o Prefix(content, ID_CONTENT_PREFIX)

\* an id that also hashes the size of the collection at the time of the call
message_id_by_count(source_file, original_idx, role, content) ==
  uuid5(message_id_str(source_file, original_idx, role, content)
          \o "_" \o IntStr(Cardinality(DOMAIN store)))

message_id(source_file, original_idx, role, content) ==
  uuid5(message_id_str(source_file, original_idx, role, content))

\* a test that lets every message through
valid_for_index_any(msg) == TRUE

\* the all([...]) test: content a non-empty str, role truthy, both keys set
valid_for_index(msg) ==
  /\ msg.content # None
  /\ msg.content # ""
  /\ msg.role # None
  /\ msg.role # ""
  /\ msg._source_file # None

IndexEntry(msg) ==
  [ id |-> message_id(msg._source_file, msg._original_idx, msg.role, msg.content),
    document |-> msg.content,
    metadata |-> [role |-> msg.role, source_file |-> msg._source_file,
                  original_idx |-> msg._original_idx] ]

\* documents, metadatas and ids, as one list of entries
IndexEntries(msgs) ==
  LET valid == SelectSeq(msgs, valid_for_index)
  IN  [i \in 1..Len(valid) |-> IndexEntry(valid[i])]

NumBatches(n) == (n + UPSERT_BATCH_SIZE - 1) \div UPSERT_BATCH_SIZE

Batch(entries, b) ==
  SubSeq(entries, (b - 1) * UPSERT_BATCH_SIZE + 1,
         Min(b * UPSERT_BATCH_SIZE, Len(entries)))

HasDuplicateIds(batch) ==
  \E i, j \in DOMAIN batch : i # j /\ batch[i].id = batch[j].id

\* collection.upsert of one batch: an entry per id, the new one replacing the old
Upsert(st, batch) ==
  LET ids == {batch[i].id : i \in DOMAIN batch}
      new(id) == LET i == CHOOSE k \in DOMAIN batch : batch[k].id = id
                 IN  [document |-> batch[i].document, metadata |-> batch[i].metadata]
  IN  [id \in (DOMAIN st) \cup ids |-> IF id \in ids THEN new(id) ELSE st[id]]

\* the upsert loop: batch b raises when the store fails there (fail_at = b),
\* when the batch repeats an id, or when the embeddings do not match the ids;
\* the batches before it stay written
RECURSIVE UpsertLoop(_, _, _, _, _)
UpsertLoop(st, entries, b, fail_at, vectors) ==
  IF b > NumBatches(Len(entries)) THEN [store |-> st, ok |-> TRUE, upserts |-> b - 1]
  ELSE IF fail_at = b \/ ~vectors \/ HasDuplicateIds(Batch(entries, b))
       THEN [store |-> st, ok |-> FALSE, upserts |-> b]
       ELSE UpsertLoop(Upsert(st, Batch(entries, b)), entries, b + 1, fail_at, vectors)

Documents(entries) == [i \in DOMAIN entries |-> entries[i].document]

NoCalls(st, r) ==
  [store |-> st, ret |-> r, raised |-> FALSE, embed_calls |-> 0, upserts |-> 0,
   embed_for |-> <<>>]

\* add_messages_to_index on the handle coll and the collection st
add_messages_to_index(use_rag, coll, st, msgs, outcome, fail_at) ==
  IF ~use_rag \/ coll = None THEN NoCalls(st, FALSE)
  ELSE IF Len(msgs) = 0 THEN NoCalls(st, FALSE)
  ELSE LET entries == IndexEntries(msgs)
           emb == get_embeddings(Documents(entries), outcome)
       IN  IF Len(entries) = 0 THEN NoCalls(st, FALSE)
           ELSE IF emb.raised
                THEN [store |-> st, ret |-> FALSE, raised |-> TRUE,
                      embed_calls |-> emb.requests,
                      upserts |-> 0, embed_for |-> Documents(entries)]
           ELSE IF emb.value = None
                THEN [store |-> st, ret |-> FALSE, raised |-> FALSE,
                      embed_calls |-> emb.requests,
                      upserts |-> 0, embed_for |-> Documents(entries)]
           ELSE LET up == UpsertLoop(st, entries, 1, fail_at, emb.value = "vectors")
                IN  [store |-> up.store, ret |-> up.ok, raised |-> FALSE,
                     embed_calls |-> emb.requests, upserts |-> up.upserts,
                     embed_for |-> Documents(entries)]

\* --------------------------------------------------- load_historical_data

\* sorted(): the file names in lexicographic order
SortedNames == <<F2, F1>>

\* a JSON value for a Python value: null for None, a string for a str
JsonValue(v) ==
  IF v = None THEN [type |-> "null", chars |-> ""] ELSE [type |-> "string", chars |-> v]

\* a reader that takes null for the empty string
PyValue_null_as_empty(j) == j.chars

\* the Python value json.load gives for a JSON value
PyValue(j) == IF j.type = "null" THEN None ELSE j.chars

JsonObject(msg) == [role |-> JsonValue(msg.role), content |-> JsonValue(msg.content)]

PyDict(obj) == Msg(PyValue(obj.role), PyValue(obj.content))

\* a file that holds a JSON array
JsonArray(items) == [kind |-> "list", data |-> items]

\* json.dump of a list of messages
JsonList(session) == JsonArray([i \in DOMAIN session |-> JsonObject(session[i])])

\* json.load of a file that holds an array of objects
json_load(file) == [i \in DOMAIN file.data |-> PyDict(file.data[i])]

InvalidJson == [kind |-> "invalid_json", data |-> <<>>]

\* a file whose top-level JSON value is an object, not a list
NotAList == [kind |-> "object", data |-> <<>>]

\* a list element that is a JSON string, not an object
NotAnObject == [json |-> "string"]

\* msg.copy() and msg_copy['_source_file'] = ... go through on a dict alone
IsObject(item) == "role" \in DOMAIN item

\* the names whose files load: readable, a JSON list, not empty
Loadable(disk) ==
  SelectSeq(SortedNames,
            LAMBDA f : f \in DOMAIN disk /\ disk[f].kind = "list" /\ Len(disk[f].data) > 0)

\* the loop over a loaded list meets an element that is no dict: the
\* AttributeError (TypeError) is none of (json.JSONDecodeError, IOError)
LoadRaises(disk) ==
  \E f \in Range(Loadable(disk)) : \E i \in DOMAIN disk[f].data : ~IsObject(disk[f].data[i])

RECURSIVE Flatten(_, _)
Flatten(disk, names) ==
  IF Len(names) = 0 THEN <<>>
  ELSE messages_with_metadata(Head(names), json_load(disk[Head(names)]))
         \o Flatten(disk, Tail(names))

\* the maps load_historical_data builds and the index call it ends with
load_historical_data(use_rag, coll, st, smap, flat, disk, outcome, fail_at) ==
  IF ~use_rag \/ coll = None \/ DOMAIN disk = {}
  THEN [map |-> smap, flat |-> flat, index |-> NoCalls(st, FALSE), raised |-> FALSE]
  ELSE IF LoadRaises(disk)
  THEN [map |-> smap, flat |-> flat, index |-> NoCalls(st, FALSE), raised |-> TRUE]
  ELSE LET names == Loadable(disk)
           all_messages_flat == Flatten(disk, names)
       IN  [ map |-> [f \in Range(names) |-> messages_with_metadata(f, json_load(disk[f]))],
             flat |-> all_messages_flat,
             raised |-> FALSE,
             index |-> IF Len(all_messages_flat) > 0
                       THEN add_messages_to_index(use_rag, coll, st, all_messages_flat,
                                                  outcome, fail_at)
                       ELSE NoCalls(st, FALSE) ]

\* --------------------------------------------------- get_relevant_messages

FRAGMENT_TAG == "[history fragment - "

\* session[j] of Python: a negative j counts from the end
InRange(session, j) == -Len(session) <= j /\ j < Len(session)

PyGet(session, j) == IF j >= 0 THEN session[j + 1] ELSE session[Len(session) + j + 1]

\* the window bounds without the clamp at 0, and with an exclusive upper offset
start_idx_unclamped(original_idx, context_before) == original_idx - context_before

end_idx_short(len, original_idx, context_after) == Min(len, original_idx + context_after)

start_idx(original_idx, context_before) == Max(0, original_idx - context_before)

end_idx(len, original_idx, context_after) == Min(len, original_idx + context_after + 1)

\* the test without the set of contents already added
Fresh_no_content_check(content, added) == content # None /\ content # ""

\* msg_content and msg_content not in added_message_contents
Fresh(content, added) == content # None /\ content # "" /\ content \notin added

\* the loop over range(start_idx, end_idx)
RECURSIVE Window(_, _, _, _, _)
Window(session, source_file, j, stop, w) ==
  IF j >= stop \/ w.raised THEN w
  ELSE IF ~InRange(session, j)
       THEN [w EXCEPT !.raised = TRUE, !.reads = @ \cup {<<source_file, j>>}]
       ELSE LET msg_obj == PyGet(session, j)
                seen == [w EXCEPT !.reads = @ \cup {<<source_file, j>>}]
            IN  IF Fresh(msg_obj.content, w.added)
                THEN Window(session, source_file, j + 1, stop,
                            [seen EXCEPT !.block = Append(@, msg_obj),
                                         !.at = Append(@, <<source_file, j>>),
                                         !.used = @ \cup {<<source_file, j>>},
                                         !.added = @ \cup {msg_obj.content}])
                ELSE Window(session, source_file, j + 1, stop, seen)

Contextualized(msg) ==
  [role |-> msg.role,
   content |-> FRAGMENT_TAG \o msg._session_timestamp_str \o "] " \o msg.content]

Original(msg) ==
  [source_file |-> msg._source_file, original_idx |-> msg._original_idx,
   content |-> msg.content]

\* msg['role'] of a message without the key raises KeyError
EmitRaises(block) == \E k \in DOMAIN block : block[k].role = None

StartScan ==
  [final |-> <<>>, origin |-> <<>>, blocks |-> <<>>, used |-> {}, added |-> {},
   retrieved_blocks_count |-> 0, reads |-> {}, fate |-> <<>>, raised |-> FALSE]

\* a block put in front of the blocks emitted before it
Emit_in_front(final_rag_messages, context_block) ==
  [k \in DOMAIN context_block |-> Contextualized(context_block[k])] \o final_rag_messages

\* final_rag_messages.append(...) for each message of the block, in its order
Emit(final_rag_messages, context_block) ==
  final_rag_messages \o [k \in DOMAIN context_block |-> Contextualized(context_block[k])]

\* a test of the session alone, without the bounds of the index
Stale_unbounded(smap, source_file, original_idx) ==
  \/ source_file \notin DOMAIN smap
  \/ Len(smap[source_file]) = 0

\* not current_session_messages or not (0 <= original_idx < len(...))
Stale(smap, source_file, original_idx) ==
  \/ source_file \notin DOMAIN smap
  \/ Len(smap[source_file]) = 0
  \/ ~(0 <= original_idx /\ original_idx < Len(smap[source_file]))

\* a count of every window expanded, with or without messages
Counts_any(context_block) == TRUE

\* if context_block:
Counts(context_block) == Len(context_block) > 0

\* a break that comes one block late
Stop_late(count, retrieval_count) == count > retrieval_count

\* the break at the top of the loop body
Stop(count, retrieval_count) == count >= retrieval_count

\* the loop over the candidates, in the order the store returned them
RECURSIVE Scan(_, _, _, _, _)
Scan(smap, cands, i, c, acc) ==
  IF i > Len(cands) \/ acc.raised \/ Stop(acc.retrieved_blocks_count, c.retrieval_count)
  THEN acc
  ELSE
    LET source_file == cands[i].source_file
        original_idx == cands[i].original_idx
        skip(why) == Scan(smap, cands, i + 1, c, [acc EXCEPT !.fate = Append(@, why)])
    IN  IF <<source_file, original_idx>> \in acc.used THEN skip("used")
        ELSE IF Stale(smap, source_file, original_idx) THEN skip("stale")
        ELSE
          LET session == smap[source_file]
              w == Window(session, source_file,
                          start_idx(original_idx, c.context_before),
                          end_idx(Len(session), original_idx, c.context_after),
                          [block |-> <<>>, at |-> <<>>, used |-> acc.used,
                           added |-> acc.added, reads |-> acc.reads, raised |-> FALSE])
              next == [acc EXCEPT !.used = w.used, !.added = w.added, !.reads = w.reads]
          IN  IF w.raised \/ EmitRaises(w.block)
              THEN [next EXCEPT !.raised = TRUE, !.fate = Append(@, "raised")]
              ELSE IF ~Counts(w.block)
              THEN Scan(smap, cands, i + 1, c, [next EXCEPT !.fate = Append(@, "empty")])
              ELSE Scan(smap, cands, i + 1, c,
                        [next EXCEPT
                           !.retrieved_blocks_count = @ + 1,
                           !.final = Emit(@, w.block),
                           !.origin = @ \o [k \in DOMAIN w.block |-> Original(w.block[k])],
                           !.blocks = Append(@, [anchor |-> i, at |-> w.at]),
                           !.fate = Append(@, "block")])

\* the product alone, whatever the collection holds
num_candidates_to_fetch_product(c, count) ==
  c.retrieval_count * c.candidate_multiplier

\* a loop that writes the fragment tag into the messages it emits
sessions_after_scan_tagged(smap, scan) ==
  [f \in DOMAIN smap |->
     [i \in DOMAIN smap[f] |->
        IF <<f, i - 1>> \in scan.used
        THEN [smap[f][i] EXCEPT !.content = Contextualized(smap[f][i]).content]
        ELSE smap[f][i]]]

\* the sessions after the loop: it appends the message objects to the block
\* and builds a new dict for each message it emits, and assigns to none
sessions_after_scan(smap, scan) == smap

\* num_candidates_to_fetch
num_candidates_to_fetch(c, count) ==
  Min(c.retrieval_count * c.candidate_multiplier, count)

\* collection.query: the n nearest entries, nearest first; which entries are
\* nearest is the embedding model's matter, so any n distinct entries
Rankings(st, n) ==
  {r \in [1..n -> DOMAIN st] : \A i, j \in 1..n : i # j => r[i] # r[j]}

\* failure: the step of a retrieval that failed ("count", "embedding", "query",
\* "expansion"), of an index call ("upsert"), of initialize ("chroma",
\* "upsert") or of a save (the file system's failure); caught: prepare_rag_messages caught an exception
EmptyTrace ==
  [embed_calls |-> 0, upserts |-> 0, queries |-> 0, probes |-> 0, counts |-> 0,
   embed_outcome |-> "none", failure |-> "none", n_results |-> 0,
   candidates |-> <<>>, scan |-> StartScan, retrieved |-> <<>>, caught |-> FALSE]

\* get_relevant_messages; env: what count(), the embedding service and
\* query() answer.  read_config: the getattr lines were reached
get_relevant_messages(use_rag, coll, st, smap, query_text, c, env) ==
  LET done(r, t, g) == [ret |-> r, raised |-> FALSE, trace |-> t, read_config |-> g,
                        sessions |-> smap]
      n == num_candidates_to_fetch(c, Cardinality(DOMAIN st))
      emb == get_embeddings(<<query_text>>, env.embed)
      counted == [EmptyTrace EXCEPT !.counts = 2, !.n_results = n]
      embedded == [counted EXCEPT !.embed_calls = emb.requests,
                                  !.embed_outcome = env.embed]
      cands == [i \in DOMAIN env.ranking |-> st[env.ranking[i]].metadata]
      scan == Scan(smap, cands, 1, c, StartScan)
  IN  IF ~use_rag \/ coll = None THEN done(<<>>, EmptyTrace, FALSE)
      ELSE IF query_text = "" \/ query_text = None THEN done(<<>>, EmptyTrace, FALSE)
      ELSE IF env.count = "error"
           THEN [ret |-> <<>>, raised |-> TRUE,
                 trace |-> [EmptyTrace EXCEPT !.counts = 1, !.failure = "count"],
                 read_config |-> FALSE, sessions |-> smap]
      ELSE IF Cardinality(DOMAIN st) = 0
           THEN done(<<>>, [EmptyTrace EXCEPT !.counts = 1], FALSE)
      ELSE IF emb.raised
           THEN [ret |-> <<>>, raised |-> TRUE,
                 trace |-> [embedded EXCEPT !.failure = "embedding"], read_config |-> TRUE,
                 sessions |-> smap]
      ELSE IF emb.value # "vectors"
           THEN done(<<>>, [embedded EXCEPT !.failure = "embedding"], TRUE)
      ELSE IF env.query = "error" \/ n <= 0
           THEN done(<<>>, [embedded EXCEPT !.queries = 1, !.failure = "query"], TRUE)
      ELSE [ ret |-> IF scan.raised THEN <<>> ELSE scan.final,
             raised |-> scan.raised,
             trace |-> [embedded EXCEPT !.queries = 1, !.candidates = cands,
                                        !.scan = scan,
                                        !.failure = IF scan.raised THEN "expansion"
                                                    ELSE "none",
                                        !.retrieved = IF scan.raised THEN <<>>
                                                      ELSE scan.final],
             read_config |-> TRUE,
             sessions |-> sessions_after_scan(smap, scan) ]

\* ---------------------------------------------------- prepare_rag_messages

SystemMessage(text) == [role |-> "system", content |-> text]

\* an assembler without the early return on an empty retrieval
Assemble_unguarded(rag_context_messages, rag_prefix, rag_suffix) ==
  (IF Strip(rag_prefix) # "" THEN <<SystemMessage(rag_prefix)>> ELSE <<>>)
    \o rag_context_messages
    \o (IF Strip(rag_suffix) # "" THEN <<SystemMessage(rag_suffix)>> ELSE <<>>)

\* the part after the retrieval: prefix, blocks, suffix
Assemble(rag_context_messages, rag_prefix, rag_suffix) ==
  IF Len(rag_context_messages) = 0 THEN <<>>
  ELSE (IF Strip(rag_prefix) # "" THEN <<SystemMessage(rag_prefix)>> ELSE <<>>)
         \o rag_context_messages
         \o (IF Strip(rag_suffix) # "" THEN <<SystemMessage(rag_suffix)>> ELSE <<>>)

\* what the try block leaves in rag_context_messages
Retrieved(found) == IF found.raised THEN <<>> ELSE found.ret

\* of the nested retrieval the trace keeps the external calls, not the scan
prepare_rag_messages(use_rag, coll, st, smap, user_input, c, env) ==
  LET found == get_relevant_messages(use_rag, coll, st, smap, user_input, c, env)
  IN  IF ~use_rag
      THEN [ret |-> <<>>, raised |-> FALSE, trace |-> EmptyTrace, sessions |-> smap]
      ELSE [ ret |-> Assemble(Retrieved(found), c.prefix, c.suffix),
             raised |-> FALSE,
             sessions |-> found.sessions,
             trace |-> [found.trace EXCEPT !.retrieved = Retrieved(found),
                                           !.caught = found.raised,
                                           !.n_results = 0,
                                           !.candidates = <<>>,
                                           !.scan = StartScan] ]

\* ------------------------------------------------------------ configuration

DEFAULT_PREFIX == "Relevant history:"
DEFAULT_SUFFIX == ""

\* the values get_relevant_messages reads with getattr
RetrievalConfigs ==
  [ retrieval_count : 1..MaxRetrievalCount,
    candidate_multiplier : 1..MaxMultiplier,
    context_before : 0..MaxContextBefore,
    context_after : 0..MaxContextAfter,
    prefix : {""}, suffix : {""} ]

\* prompts: empty, blank, and a text
Prompts == {"", " ", DEFAULT_PREFIX}

NoConfig ==
  [retrieval_count |-> 0, candidate_multiplier |-> 0, context_before |-> 0,
   context_after |-> 0, prefix |-> "", suffix |-> ""]

Queries == {"", "q"}

FailAts == {0, 1, 2}

EmptyMap == [f \in {} |-> <<>>]

\* the argument and the result of a call, one field for each kind: a query
\* text, a list of messages, a file path; a bool, a list of messages, a path
NoArg == [query |-> None, messages |-> <<>>, path |-> None]
NoRet == [ok |-> FALSE, list |-> <<>>, path |-> None]
Returned(bool) == [NoRet EXCEPT !.ok = bool]

\* the state of a new RAGSystem (__init__), the process's first, on a disk and
\* a collection as earlier runs left them
Constructed(flags, disks, stores) ==
  /\ USE_RAG \in flags
  /\ chroma_collection = None
  /\ store \in stores
  /\ files \in disks
  /\ historical_sessions_map = EmptyMap
  /\ flat_historical_messages = <<>>
  /\ phase = "new"
  /\ health_ok = FALSE
  /\ op = "idle"
  /\ arg = NoArg
  /\ ret = NoRet
  /\ raised = FALSE
  /\ cfg = NoConfig
  /\ trace = EmptyTrace
  /\ repeated = FALSE
  /\ last_indexed = <<>>
  /\ saves = 0

\* the list an index call leaves in last_indexed
Indexed(msgs, index) == IF index.ret /\ ~index.raised THEN msgs ELSE <<>>

\* -------------------------------------------------------------- initialize

\* what GET /health answers: 200 and status ok, no answer, another status
\* code, or 200 with another status field
ProbeOutcomes == {"ok", "unreachable", "bad_status", "not_ok"}

\* a probe that looks at the status code alone
Healthy_by_status_code(probe) == probe \in {"ok", "not_ok"}

\* response.status_code == 200 and response.json().get('status') == 'ok'
Healthy(probe) == probe = "ok"

initialize(probe, chroma, outcome, fail_at) ==
  LET loaded == load_historical_data(USE_RAG, Collection, store, historical_sessions_map,
                                     flat_historical_messages, files, outcome, fail_at)
      off(p) == [ret |-> FALSE, coll |-> None, store |-> store,
                 map |-> historical_sessions_map, flat |-> flat_historical_messages,
                 answered_ok |-> (p = 1 /\ probe = "ok"), indexed |-> <<>>,
                 trace |-> [EmptyTrace EXCEPT !.probes = p]]
      failed == loaded.raised \/ loaded.index.raised
  IN  IF ~USE_RAG \/ chroma = "not_installed" THEN off(0)
      ELSE IF ~Healthy(probe) THEN off(1)
      ELSE IF chroma = "error" THEN [off(1) EXCEPT !.trace.failure = "chroma"]
      ELSE [ ret |-> ~failed,
             coll |-> IF failed THEN None ELSE Collection,
             store |-> loaded.index.store,
             map |-> loaded.map, flat |-> loaded.flat,
             answered_ok |-> (probe = "ok"),
             indexed |-> Indexed(loaded.flat, loaded.index),
             trace |-> [EmptyTrace EXCEPT
                          !.probes = 1,
                          !.embed_calls = loaded.index.embed_calls,
                          !.upserts = loaded.index.upserts,
                          !.embed_outcome =
                             IF loaded.index.embed_calls > 0 THEN outcome ELSE "none",
                          !.failure =
                             IF fail_at \in 1..loaded.index.upserts THEN "upsert"
                             ELSE "none"] ]

\* chromadb: the collection opens, opening it raises, or the module is missing
ChromaOutcomes == {"ok", "error", "not_installed"}

InitializeOutcomes ==
  { initialize(probe, chroma, outcome, fail_at) :
      probe \in ProbeOutcomes, chroma \in ChromaOutcomes,
      outcome \in EmbedOutcomes, fail_at \in FailAts }

\* initialize() is the first call on an instance and runs once (the usage in
\* the class docstring: instantiate, initialize, then retrieve and save)
Initialize ==
  /\ op = "idle"
  /\ phase = "new"
  /\ \E r \in InitializeOutcomes :
       /\ chroma_collection' = r.coll
       /\ store' = r.store
       /\ historical_sessions_map' = r.map
       /\ flat_historical_messages' = r.flat
       /\ phase' = IF r.ret THEN "ok" ELSE "failed"
       /\ health_ok' = r.answered_ok
       /\ op' = "initialize"
       /\ arg' = NoArg
       /\ ret' = Returned(r.ret)
       /\ raised' = FALSE
       /\ cfg' = NoConfig
       /\ trace' = r.trace
       /\ repeated' = FALSE
       /\ last_indexed' = r.indexed
  /\ UNCHANGED <<USE_RAG, files, saves>>
  /\ UNCHANGED beyond

\* --------------------------------------------------- add_messages_to_index

\* the lists a caller has at hand: a session of the map, or all messages
IndexInputs ==
  {historical_sessions_map[f] : f \in DOMAIN historical_sessions_map}
    \cup {flat_historical_messages}

AddMessagesToIndex ==
  /\ op = "idle"
  /\ \E msgs \in IndexInputs, outcome \in EmbedOutcomes, fail_at \in FailAts :
       LET r == add_messages_to_index(USE_RAG, chroma_collection, store, msgs,
                                      outcome, fail_at)
       IN  /\ store' = r.store
           /\ op' = "add_messages_to_index"
           /\ repeated' = (Len(msgs) > 0 /\ last_indexed = msgs)
           /\ last_indexed' = Indexed(msgs, r)
           /\ arg' = [NoArg EXCEPT !.messages = msgs]
           /\ ret' = Returned(r.ret)
           /\ raised' = r.raised
           /\ cfg' = NoConfig
           /\ trace' = [EmptyTrace EXCEPT !.embed_calls = r.embed_calls,
                                          !.upserts = r.upserts,
                                          !.embed_outcome =
                                             IF r.embed_calls > 0 THEN outcome ELSE "none",
                                          !.failure =
                                             IF r.upserts > 0 /\ ~r.ret THEN "upsert"
                                             ELSE "none"]
  /\ UNCHANGED <<USE_RAG, chroma_collection, files, historical_sessions_map,
                 flat_historical_messages, phase, health_ok, saves>>
  /\ UNCHANGED beyond

\* -------------------------------------------------- add_session_to_history

\* what the file system does: all steps succeed, or os.makedirs, open or
\* json.dump raises
IoOutcomes == {"ok", "makedirs_error", "open_error", "dump_error"}

\* a filter that keeps every message
NotSystem_all(msg) == TRUE

\* msg.get('role') != 'system'
NotSystem(msg) == msg.role # "system"

add_session_to_history(session_messages, session_filepath, now, io, outcome, fail_at) ==
  LET filtered_messages == SelectSeq(session_messages, NotSystem)
      path == IF session_filepath = None THEN now ELSE session_filepath
      annotated == messages_with_metadata(path, filtered_messages)
      same == [ret |-> None, files |-> files, map |-> historical_sessions_map,
               flat |-> flat_historical_messages, index |-> NoCalls(store, FALSE),
               indexed |-> last_indexed, failure |-> "none"]
      map2 == [f \in (DOMAIN historical_sessions_map) \cup {path} |->
                 IF f = path THEN annotated ELSE historical_sessions_map[f]]
      index == add_messages_to_index(USE_RAG, chroma_collection, store, annotated,
                                     outcome, fail_at)
      put(content) == [f \in (DOMAIN files) \cup {path} |->
                         IF f = path THEN content ELSE files[f]]
  IN  IF ~USE_RAG \/ Len(session_messages) = 0 \/ Len(filtered_messages) = 0 THEN same
      ELSE IF io \in {"makedirs_error", "open_error"} THEN [same EXCEPT !.failure = io]
      ELSE IF io = "dump_error"
           THEN [same EXCEPT !.files = put(InvalidJson), !.failure = io]
      ELSE [ ret |-> IF index.raised THEN None ELSE path,
             failure |-> "none",
             files |-> put(JsonList(filtered_messages)),
             map |-> map2,
             flat |-> flat_historical_messages \o annotated,
             index |-> index,
             indexed |-> Indexed(annotated, index) ]

AddSessionToHistoryOutcomes(inputs) ==
  { [arg |-> [messages |-> session, path |-> path],
     r |-> add_session_to_history(session, path, now, io, outcome, fail_at)] :
      session \in inputs, path \in FileNames \cup {None}, now \in NowNames,
      io \in IoOutcomes, outcome \in EmbedOutcomes, fail_at \in FailAts }

AddSessionToHistory(inputs, max_saves) ==
  /\ op = "idle"
  /\ saves < max_saves
  /\ \E o \in AddSessionToHistoryOutcomes(inputs) :
       /\ files' = o.r.files
       /\ historical_sessions_map' = o.r.map
       /\ flat_historical_messages' = o.r.flat
       /\ store' = o.r.index.store
       /\ op' = "add_session_to_history"
       /\ arg' = [NoArg EXCEPT !.messages = o.arg.messages, !.path = o.arg.path]
       /\ ret' = [NoRet EXCEPT !.path = o.r.ret]
       /\ raised' = FALSE
       /\ cfg' = NoConfig
       /\ trace' = [EmptyTrace EXCEPT !.embed_calls = o.r.index.embed_calls,
                                      !.upserts = o.r.index.upserts,
                                      !.failure = o.r.failure]
       /\ repeated' = FALSE
       /\ last_indexed' = o.r.indexed
  /\ saves' = saves + 1
  /\ UNCHANGED <<USE_RAG, chroma_collection, phase, health_ok>>
  /\ UNCHANGED beyond

\* ------------------------------------------------------------- retrieval

Answer(count, embed, query, ranking) ==
  [count |-> count, embed |-> embed, query |-> query, ranking |-> ranking]

\* what the environment answers during one retrieval that asks for n
\* candidates: count() fails, or query() fails, or the embedding service
\* answers in one of its ways and query(), if asked, returns a ranking
Envs(n) ==
  {Answer("error", "ok", "ok", <<>>), Answer("ok", "ok", "error", <<>>)}
    \cup {Answer("ok", e, "ok", r) : e \in EmbedOutcomes, r \in Rankings(store, n)}

GetRelevantMessagesOutcomes(configs) ==
  UNION { { [arg |-> query_text, c |-> c,
             r |-> get_relevant_messages(USE_RAG, chroma_collection, store,
                                         historical_sessions_map, query_text, c, env)] :
              env \in Envs(num_candidates_to_fetch(c, Cardinality(DOMAIN store))) } :
          query_text \in Queries, c \in configs }

GetRelevantMessages(configs) ==
  /\ op = "idle"
  /\ \E o \in GetRelevantMessagesOutcomes(configs) :
       /\ op' = "get_relevant_messages"
       /\ arg' = [NoArg EXCEPT !.query = o.arg]
       /\ ret' = [NoRet EXCEPT !.list = o.r.ret]
       /\ raised' = o.r.raised
       /\ cfg' = IF o.r.read_config THEN o.c ELSE NoConfig
       /\ trace' = o.r.trace
       /\ repeated' = FALSE
       /\ historical_sessions_map' = o.r.sessions
  /\ UNCHANGED <<USE_RAG, chroma_collection, store, files, flat_historical_messages,
                 phase, health_ok, last_indexed, saves>>
  /\ UNCHANGED beyond

Prompted(prefix, suffix) == [NoConfig EXCEPT !.prefix = prefix, !.suffix = suffix]

\* every retrieval the call can nest, with the prompts it is configured with
PrepareRagMessagesOutcomes(configs, prefixes, suffixes) ==
  UNION { { [arg |-> user_input, c |-> Prompted(prefix, suffix),
             r |-> prepare_rag_messages(USE_RAG, chroma_collection, store,
                                        historical_sessions_map, user_input,
                                        [c EXCEPT !.prefix = prefix, !.suffix = suffix],
                                        env)] :
              env \in Envs(num_candidates_to_fetch(c, Cardinality(DOMAIN store))),
              prefix \in prefixes, suffix \in suffixes } :
          user_input \in Queries, c \in configs }

PrepareRagMessages(configs, prefixes, suffixes) ==
  /\ op = "idle"
  /\ \E o \in PrepareRagMessagesOutcomes(configs, prefixes, suffixes) :
       /\ op' = "prepare_rag_messages"
       /\ arg' = [NoArg EXCEPT !.query = o.arg]
       /\ ret' = [NoRet EXCEPT !.list = o.r.ret]
       /\ raised' = o.r.raised
       /\ cfg' = o.c
       /\ trace' = o.r.trace
       /\ repeated' = FALSE
       /\ historical_sessions_map' = o.r.sessions
  /\ UNCHANGED <<USE_RAG, chroma_collection, store, files, flat_historical_messages,
                 phase, health_ok, last_indexed, saves>>
  /\ UNCHANGED beyond

\* the caller takes the result; the instance waits for the next call
Return ==
  /\ op # "idle"
  /\ op' = "idle"
  /\ arg' = NoArg
  /\ ret' = NoRet
  /\ raised' = FALSE
  /\ cfg' = NoConfig
  /\ trace' = EmptyTrace
  /\ repeated' = FALSE
  /\ UNCHANGED <<USE_RAG, chroma_collection, store, files, historical_sessions_map,
                 flat_historical_messages, phase, health_ok, last_indexed, saves>>
  /\ UNCHANGED beyond

\* ------------------------------------------------------ other characters

\* one collection name for all characters
CHROMA_COLLECTION_NAME_shared(id) == "rag_collection"

\* f"rag_collection_char_{self.character_id}"
CHROMA_COLLECTION_NAME(id) == "rag_collection_char_" \o IntStr(id)

\* f"character_{self.character_id}" under RAG_HISTORY_PATH
history_path(id) == "character_" \o IntStr(id)

Put(f, k, v) == [x \in (DOMAIN f) \cup {k} |-> IF x = k THEN v ELSE f[x]]
Get(f, k, default) == IF k \in DOMAIN f THEN f[k] ELSE default
Without(f, k) == [x \in (DOMAIN f) \ {k} |-> f[x]]

\* the attributes of an instance, and what the model notes about it
Attributes(coll, smap, flat, ph, healthy, indexed) ==
  [chroma_collection |-> coll, historical_sessions_map |-> smap,
   flat_historical_messages |-> flat, phase |-> ph, health_ok |-> healthy,
   last_indexed |-> indexed]

NewInstance == Attributes(None, EmptyMap, <<>>, "new", FALSE, <<>>)

\* what a character's collection, directory and maps held when its instance
\* last acted
Left(st, disk, smap, flat) ==
  [store |-> st, files |-> disk, historical_sessions_map |-> smap,
   flat_historical_messages |-> flat]

NoOthers ==
  [collections |-> EmptyMap, directories |-> EmptyMap, instances |-> EmptyMap,
   left |-> EmptyMap]

NotSaving == [step |-> "none", path |-> None, messages |-> <<>>]

\* one instance of character 1, called from one thread
Alone ==
  /\ character_id = 1
  /\ others = NoOthers
  /\ saving = NotSaving

\* the caller turns to the instance of another character: the collection and
\* the directory that instance sees are the ones under its names
Switch ==
  /\ op = "idle"
  /\ \E to \in (DOMAIN others.instances) \ {character_id} :
       LET collections == Put(others.collections,
                              CHROMA_COLLECTION_NAME(character_id), store)
           directories == Put(others.directories, history_path(character_id), files)
           instances == Put(others.instances, character_id,
                            Attributes(chroma_collection, historical_sessions_map,
                                       flat_historical_messages, phase, health_ok,
                                       last_indexed))
           self == instances[to]
       IN  /\ character_id' = to
           /\ store' = Get(collections, CHROMA_COLLECTION_NAME(to), EmptyMap)
           /\ files' = Get(directories, history_path(to), EmptyMap)
           /\ chroma_collection' = self.chroma_collection
           /\ historical_sessions_map' = self.historical_sessions_map
           /\ flat_historical_messages' = self.flat_historical_messages
           /\ phase' = self.phase
           /\ health_ok' = self.health_ok
           /\ last_indexed' = self.last_indexed
           /\ others' =
                [collections |-> Without(collections, CHROMA_COLLECTION_NAME(to)),
                 directories |-> Without(directories, history_path(to)),
                 instances |-> Without(instances, to),
                 left |-> Put(others.left, character_id,
                              Left(store, files, historical_sessions_map,
                                   flat_historical_messages))]
  /\ op' = "switch"
  /\ arg' = NoArg
  /\ ret' = NoRet
  /\ raised' = FALSE
  /\ cfg' = NoConfig
  /\ trace' = EmptyTrace
  /\ repeated' = FALSE
  /\ UNCHANGED <<USE_RAG, saves, saving>>

\* ------------------------------------------------- the life of an instance

\* Sessions of a well-formed and a role-less message; at the start the
\* history directory holds no file or one earlier session, which may be
\* unreadable or empty, and the collection is empty.  Retrievals run with the
\* smallest configuration and the default prompts.
LifeSessions == SessionsOver({A, N})

LifeDisks ==
  {EmptyMap} \cup {[f \in {F1} |-> c] :
                     c \in {JsonList(s) : s \in LifeSessions} \cup {JsonList(<<>>), InvalidJson}}

LifeConfigs ==
  {[retrieval_count |-> 1, candidate_multiplier |-> 1, context_before |-> 1,
    context_after |-> 1, prefix |-> "", suffix |-> ""]}

Init == Constructed(BOOLEAN, LifeDisks, {EmptyMap}) /\ Alone

Next ==
  \/ Initialize
  \/ AddMessagesToIndex
  \/ AddSessionToHistory(LifeSessions \cup {<<>>}, MaxSaves)
  \/ GetRelevantMessages(LifeConfigs)
  \/ PrepareRagMessages(LifeConfigs, {DEFAULT_PREFIX}, {DEFAULT_SUFFIX})
  \/ Return

Spec == Init /\ [][Next]_vars

\* ------------------------------------------------------- retrieval at large

\* Memory enabled; up to two session files of well-formed messages; the
\* collection empty or holding an entry of an earlier run, for the second
\* message of a file that may since have been removed, cut down or rewritten.
\* Retrievals run with every configuration within the bounds.
RetrieveSessions == SessionsOver({A, B})

RetrieveDisks ==
  UNION { [D -> {JsonList(s) : s \in RetrieveSessions}] : D \in SUBSET FileNames }

LeftBehind == Upsert(EmptyMap, IndexEntries(<<WithMetadata(A, F2, 1)>>))

InitRetrieve == Constructed({TRUE}, RetrieveDisks, {EmptyMap, LeftBehind}) /\ Alone

NextRetrieve ==
  \/ Initialize
  \/ GetRelevantMessages(RetrievalConfigs)
  \/ PrepareRagMessages(RetrievalConfigs, Prompts, Prompts)
  \/ Return

SpecRetrieve == InitRetrieve /\ [][NextRetrieve]_vars

\* ------------------------------------------------- the five-message session

\* Memory enabled; the history directory holds one session file of five
\* well-formed messages with five contents; the collection starts empty.
\* Retrievals run with one message of context on each side, the default
\* candidate multiplier, and a retrieval count of 1 or the default.
FiveMessages ==
  <<Msg("user", "m0"), Msg("assistant", "m1"), Msg("user", "m2"),
    Msg("assistant", "m3"), Msg("user", "m4")>>

WindowDisks == {[f \in {F1} |-> JsonList(FiveMessages)]}

WindowConfigs ==
  [ retrieval_count : {1, DEFAULT_RETRIEVAL_COUNT},
    candidate_multiplier : {DEFAULT_CANDIDATE_MULTIPLIER},
    context_before : {1}, context_after : {1},
    prefix : {""}, suffix : {""} ]

InitWindow == Constructed({TRUE}, WindowDisks, {EmptyMap}) /\ Alone

NextWindow ==
  \/ Initialize
  \/ GetRelevantMessages(WindowConfigs)
  \/ Return

SpecWindow == InitWindow /\ [][NextWindow]_vars

\* ------------------------------------------------------------ two characters

\* Memory enabled; the instances of characters 1 and 2 share the configuration,
\* the vector store and the history root.  Character 1 talks in messages of
\* content "a", character 2 in messages of content "b"; each history
\* directory starts empty or with one session of its character under the same
\* file name; the collections start empty.  The caller works with one
\* instance at a time.
OwnSessions(id) == IF id = 1 THEN {<<A>>} ELSE {<<B>>}

OwnDisks(id) == {EmptyMap} \cup {[f \in {F1} |-> JsonList(s)] : s \in OwnSessions(id)}

InitTwo ==
  /\ Constructed({TRUE}, OwnDisks(1), {EmptyMap})
  /\ character_id = 1
  /\ saving = NotSaving
  /\ \E d \in OwnDisks(2) :
       others = [collections |-> EmptyMap,
                 directories |-> Put(EmptyMap, history_path(2), d),
                 instances |-> Put(EmptyMap, 2, NewInstance),
                 left |-> Put(EmptyMap, 2, Left(EmptyMap, d, EmptyMap, <<>>))]

NextTwo ==
  \/ Initialize
  \/ AddMessagesToIndex
  \/ AddSessionToHistory(OwnSessions(character_id), MaxSaves)
  \/ GetRelevantMessages(LifeConfigs)
  \/ Switch
  \/ Return

SpecTwo == InitTwo /\ [][NextTwo]_vars

\* ------------------------------------------------------- the files on disk

\* Memory enabled, the collection empty.  The history directory holds up to
\* two files, each a session of one message, an empty list, text that is no
\* JSON, a JSON object, or a list with an element that is no object.
LoadContents ==
  {JsonList(<<A>>), JsonList(<<B>>), JsonList(<<>>), InvalidJson, NotAList,
   JsonArray(<<NotAnObject>>), JsonArray(<<JsonObject(A), NotAnObject>>)}

LoadDisks == UNION {[names -> LoadContents] : names \in SUBSET FileNames}

InitLoad == Constructed({TRUE}, LoadDisks, {EmptyMap}) /\ Alone

NextLoad ==
  \/ Initialize
  \/ AddMessagesToIndex
  \/ GetRelevantMessages(LifeConfigs)
  \/ Return

SpecLoad == InitLoad /\ [][NextLoad]_vars

\* --------------------------------------------------------- mixed batches

\* Memory enabled, the collection empty.  One file holds a session of up to
\* two messages, each well-formed, without a role, with empty content or
\* without content; the lists handed to the indexer are that session.
IndexSessions == SessionsOver({A, B, N, E, NoContent})

IndexDisks == {[f \in {F2} |-> JsonList(s)] : s \in IndexSessions}

InitIndex == Constructed({TRUE}, IndexDisks, {EmptyMap}) /\ Alone

NextIndex ==
  \/ Initialize
  \/ AddMessagesToIndex
  \/ Return

SpecIndex == InitIndex /\ [][NextIndex]_vars

\* ------------------------------------------------------------------ saves

\* Memory enabled, the collection and the history directory empty.  The
\* caller saves up to two lists of up to two messages, user, assistant or
\* system, also the empty list, under a path of its own or under the path the instance
\* computes; the clock names the same second for both saves.
SaveSessions == SeqsUpTo({A, B, S}, MaxSessionLen)

InitSave == Constructed({TRUE}, {EmptyMap}, {EmptyMap}) /\ Alone

NextSave ==
  \/ Initialize
  \/ AddSessionToHistory(SaveSessions, MaxSavesSameSecond)
  \/ Return

SpecSave == InitSave /\ [][NextSave]_vars

\* ------------------------------------------------- a save and a retrieval

\* add_session_to_history on a thread of its own, statement by statement; the
\* class takes no lock, so the calls of other threads run between its steps.
\* saving: where the save stands, its file name and its annotated messages.

\* lines 282-309: the guards, the file written, the messages annotated
SaveWrite(inputs) ==
  /\ saving.step = "none"
  /\ saves < MaxSaves
  /\ USE_RAG
  /\ \E session \in inputs, path \in NowNames :
       LET filtered_messages == SelectSeq(session, NotSystem)
       IN  /\ Len(filtered_messages) > 0
           /\ files' = [f \in (DOMAIN files) \cup {path} |->
                          IF f = path THEN JsonList(filtered_messages) ELSE files[f]]
           /\ saving' = [step |-> "written", path |-> path,
                         messages |-> messages_with_metadata(path, filtered_messages)]
  /\ saves' = saves + 1
  /\ UNCHANGED <<USE_RAG, chroma_collection, store, historical_sessions_map,
                 flat_historical_messages, phase, health_ok, op, arg, ret, raised,
                 cfg, trace, repeated, last_indexed, character_id, others>>

\* line 311: self.historical_sessions_map[filename] = messages_with_metadata
SaveMap ==
  /\ saving.step = "written"
  /\ historical_sessions_map' =
       [f \in (DOMAIN historical_sessions_map) \cup {saving.path} |->
          IF f = saving.path THEN saving.messages ELSE historical_sessions_map[f]]
  /\ saving' = [saving EXCEPT !.step = "mapped"]
  /\ UNCHANGED <<USE_RAG, chroma_collection, store, files, flat_historical_messages,
                 phase, health_ok, op, arg, ret, raised, cfg, trace, repeated,
                 last_indexed, saves, character_id, others>>

\* line 312: self.flat_historical_messages.extend(messages_with_metadata)
SaveFlat ==
  /\ saving.step = "mapped"
  /\ flat_historical_messages' = flat_historical_messages \o saving.messages
  /\ saving' = [saving EXCEPT !.step = "extended"]
  /\ UNCHANGED <<USE_RAG, chroma_collection, store, files, historical_sessions_map,
                 phase, health_ok, op, arg, ret, raised, cfg, trace, repeated,
                 last_indexed, saves, character_id, others>>

\* lines 313-314: self.add_messages_to_index(messages_with_metadata); return
SaveIndex ==
  /\ saving.step = "extended"
  /\ \E outcome \in EmbedOutcomes, fail_at \in FailAts :
       LET index == add_messages_to_index(USE_RAG, chroma_collection, store,
                                          saving.messages, outcome, fail_at)
       IN  /\ store' = index.store
           /\ last_indexed' = Indexed(saving.messages, index)
  /\ saving' = NotSaving
  /\ UNCHANGED <<USE_RAG, chroma_collection, files, historical_sessions_map,
                 flat_historical_messages, phase, health_ok, op, arg, ret, raised,
                 cfg, trace, repeated, saves, character_id, others>>

\* Memory enabled; the history directory is empty or holds one session; one
\* thread saves a session of one or two messages while another initializes
\* the instance and retrieves.
ConcurrentDisks == {EmptyMap} \cup {[f \in {F2} |-> JsonList(<<A>>)]}

InitConcurrent == Constructed({TRUE}, ConcurrentDisks, {EmptyMap}) /\ Alone

NextConcurrent ==
  \/ Initialize
  \/ SaveWrite(RetrieveSessions)
  \/ SaveMap
  \/ SaveFlat
  \/ SaveIndex
  \/ GetRelevantMessages(LifeConfigs)
  \/ Return

SpecConcurrent == InitConcurrent /\ [][NextConcurrent]_vars

\* ----------------------------------------------------------- long messages

RECURSIVE Repeat(_, _)
Repeat(c, n) == IF n = 0 THEN "" ELSE c \o Repeat(c, n - 1)

\* two user messages of 101 characters that differ in the last one
Long1 == Msg("user", Repeat("x", ID_CONTENT_PREFIX) \o "1")
Long2 == Msg("user", Repeat("x", ID_CONTENT_PREFIX) \o "2")

\* Memory enabled, the collection and the history directory empty.  The
\* caller saves up to two sessions of one long message, under a path of its
\* own or the computed one.
LongSessions == {<<Long1>>, <<Long2>>}

InitLong == Constructed({TRUE}, {EmptyMap}, {EmptyMap}) /\ Alone

NextLong ==
  \/ Initialize
  \/ AddSessionToHistory(LongSessions, MaxSavesSameSecond)
  \/ AddMessagesToIndex
  \/ Return

SpecLong == InitLong /\ [][NextLong]_vars

\* ------------------------------------------------------ overlapping windows

\* Memory enabled, the collection empty; one session of three messages, the
\* second repeating the content of the first, is loaded and indexed; the
\* retrievals ask for one or two blocks with windows of up to one message on
\* either side.
RepeatingSession == <<A, A, B>>

OverlapDisks == {[f \in {F2} |-> JsonList(RepeatingSession)]}

OverlapConfigs ==
  [ retrieval_count : 1..MaxRetrievalCount,
    candidate_multiplier : 1..MaxMultiplier,
    context_before : 0..1, context_after : 0..1,
    prefix : {""}, suffix : {""} ]

InitOverlap == Constructed({TRUE}, OverlapDisks, {EmptyMap}) /\ Alone

NextOverlap ==
  \/ Initialize
  \/ GetRelevantMessages(OverlapConfigs)
  \/ Return

SpecOverlap == InitOverlap /\ [][NextOverlap]_vars

\* ------------------------------------------------------------------ restart

\* the process ends and a new one constructs the instance again: the files
\* and the collection stay, the attributes are those of __init__; what the
\* maps and the collection held is noted in others.left
Restart ==
  /\ op = "idle"
  /\ phase # "new"
  /\ chroma_collection' = None
  /\ historical_sessions_map' = EmptyMap
  /\ flat_historical_messages' = <<>>
  /\ phase' = "new"
  /\ health_ok' = FALSE
  /\ last_indexed' = <<>>
  /\ others' = [others EXCEPT !.left =
                  Put(@, character_id, Left(store, files, historical_sessions_map,
                                            flat_historical_messages))]
  /\ UNCHANGED <<USE_RAG, store, files, op, arg, ret, raised, cfg, trace, repeated,
                 saves, character_id, saving>>

\* Memory enabled, the collection and the history directory empty.  The
\* caller initializes, saves one session to a .json file of the history
\* directory, and the process is restarted.
InitRestart == Constructed({TRUE}, {EmptyMap}, {EmptyMap}) /\ Alone

NextRestart ==
  \/ Initialize
  \/ AddSessionToHistory(LifeSessions, MaxSaves)
  \/ Restart
  \/ Return

SpecRestart == InitRestart /\ [][NextRestart]_vars

\* ===================================================================== C1

\* C1 (idempotent indexing).  When add_messages_to_index is called on the list
\* whose indexing was the last write to the collection and succeeded, the
\* collection after the call is the collection before it: the same count, and
\* under every id the same document and metadata.  The ids are a function of
\* (source_file, original_idx, role, content prefix) alone, so the second call
\* overwrites every entry with itself.
C1_IdempotentIndexing ==
  [][(op' = "add_messages_to_index" /\ repeated') => store' = store]_vars

\* a second call on a list just indexed, itself successful
C1_Witness ==
  /\ op = "add_messages_to_index"
  /\ repeated
  /\ ret.ok
  /\ trace.upserts > 0
  /\ Cardinality(DOMAIN store) > 0

\* ===================================================================== C2

\* C2 (dedup invariant).  In every call of get_relevant_messages no two
\* emitted messages come from the same (source_file, original_idx) position
\* and no two have the same original content, whichever sessions they are in;
\* the list returned is the emitted messages, each under its fragment tag.
C2_NoDuplicateEmitted ==
  op = "get_relevant_messages" =>
    LET o == trace.scan.origin
    IN  /\ \A i, j \in DOMAIN o :
             i # j => /\ <<o[i].source_file, o[i].original_idx>>
                            # <<o[j].source_file, o[j].original_idx>>
                      /\ o[i].content # o[j].content
        /\ ~raised =>
             /\ Len(ret.list) = Len(o)
             /\ \A k \in DOMAIN o :
                  ret.list[k].content =
                    FRAGMENT_TAG \o parse_session_time_from_filename(o[k].source_file)
                      \o "] " \o o[k].content

\* two sessions hold the same content, both are candidates that the loop
\* examined: the first gives a block, the second gives nothing
C2_Witness ==
  /\ op = "get_relevant_messages"
  /\ ~raised
  /\ \E i, j \in DOMAIN trace.scan.fate :
       LET a == trace.candidates[i]
           b == trace.candidates[j]
           m == historical_sessions_map
       IN  /\ i < j
           /\ a.source_file # b.source_file
           /\ a.source_file \in DOMAIN m /\ a.original_idx < Len(m[a.source_file])
           /\ b.source_file \in DOMAIN m /\ b.original_idx < Len(m[b.source_file])
           /\ m[a.source_file][a.original_idx + 1].content
                = m[b.source_file][b.original_idx + 1].content
           /\ trace.scan.fate[i] = "block"
           /\ trace.scan.fate[j] = "empty"
           /\ Cardinality({k \in DOMAIN trace.scan.origin :
                             trace.scan.origin[k].content
                               = m[a.source_file][a.original_idx + 1].content}) = 1

\* ===================================================================== C3

\* C3 (block cap).  In every call of get_relevant_messages the number of
\* context blocks emitted, each of at least one message, is at most the
\* retrieval_count the call read from the configuration.
C3_BlockCap ==
  op = "get_relevant_messages" =>
    /\ Len(trace.scan.blocks) <= cfg.retrieval_count
    /\ trace.scan.retrieved_blocks_count = Len(trace.scan.blocks)
    /\ \A k \in DOMAIN trace.scan.blocks : Len(trace.scan.blocks[k].at) > 0

\* the cap binds: the loop stops before a candidate that would give a block
C3_Witness ==
  /\ op = "get_relevant_messages"
  /\ cfg.retrieval_count = 1
  /\ Len(trace.scan.blocks) = 1
  /\ Len(trace.scan.fate) < Len(trace.candidates)
  /\ LET next == trace.candidates[Len(trace.scan.fate) + 1]
          m == historical_sessions_map
     IN  /\ <<next.source_file, next.original_idx>> \notin trace.scan.used
         /\ next.source_file \in DOMAIN m
         /\ next.original_idx < Len(m[next.source_file])
         /\ m[next.source_file][next.original_idx + 1].content \notin trace.scan.added

\* ===================================================================== C4

\* C4 (window clamping).  Every message emitted for the block of an accepted
\* candidate at index i of a session of length n lies in the candidate's
\* session at an index j with max(0, i - context_before) <= j and
\* j <= min(n - 1, i + context_after); every index the loop reads is an index
\* of the session, from 0 to n - 1.
C4_WindowClamping ==
  op = "get_relevant_messages" =>
    /\ \A k \in DOMAIN trace.scan.blocks :
         LET b == trace.scan.blocks[k]
             cand == trace.candidates[b.anchor]
             n == Len(historical_sessions_map[cand.source_file])
         IN  \A x \in DOMAIN b.at :
               /\ b.at[x][1] = cand.source_file
               /\ Max(0, cand.original_idx - cfg.context_before) <= b.at[x][2]
               /\ b.at[x][2] <= Min(n - 1, cand.original_idx + cfg.context_after)
    /\ \A r \in trace.scan.reads :
         /\ r[1] \in DOMAIN historical_sessions_map
         /\ 0 <= r[2]
         /\ r[2] < Len(historical_sessions_map[r[1]])

\* a candidate at index 0 of a one-message session, with context_before = 2
\* and context_after = 1: the block is the message at index 0
C4_Witness ==
  /\ op = "get_relevant_messages"
  /\ cfg.context_before = 2
  /\ cfg.context_after = 1
  /\ \E k \in DOMAIN trace.scan.blocks :
       LET b == trace.scan.blocks[k]
           cand == trace.candidates[b.anchor]
       IN  /\ cand.original_idx = 0
           /\ Len(historical_sessions_map[cand.source_file]) = 1
           /\ b.at = <<<<cand.source_file, 0>>>>

\* ===================================================================== C5

\* C5 (empty-state safety), as the specification states it.  A call of
\* get_relevant_messages with an empty query, or on a collection that
\* count() reports empty, or whose embedding request is not answered with
\* usable embeddings (no answer, a rejected status, a body without them),
\* returns the empty list and raises nothing.
C5_EmptyStateSafety ==
  ( /\ op = "get_relevant_messages"
    /\ \/ arg.query = ""
       \/ Cardinality(DOMAIN store) = 0 /\ trace.failure # "count"
       \/ trace.embed_outcome \notin {"none", "ok"} )
  => (ret.list = <<>> /\ ~raised)

\* ===================================================================== C6

\* C6 (retrieval failures are invisible).  prepare_rag_messages never raises;
\* when count() fails, when the embedding request is not answered with usable
\* embeddings, when the query of the store fails, or when the expansion of a
\* window raises, it returns the empty list, without prefix and suffix.
C6_FailuresInvisible ==
  op = "prepare_rag_messages" =>
    /\ ~raised
    /\ ( \/ trace.failure # "none"
         \/ trace.caught
         \/ trace.embed_outcome \notin {"none", "ok"} )
       => ret.list = <<>>

\* the expansion of a window reached a message without a role: the KeyError
\* is caught and the call returns the empty list though a prefix is configured
C6_Witness ==
  /\ op = "prepare_rag_messages"
  /\ trace.failure = "expansion"
  /\ trace.caught
  /\ cfg.prefix = DEFAULT_PREFIX
  /\ ret.list = <<>>
  /\ ~raised

\* ===================================================================== C7

\* the scenario: a session of five messages, all indexed; the nearest
\* candidate is index 2; one message of context on each side
C7_Scenario ==
  /\ op = "get_relevant_messages"
  /\ ~raised
  /\ F1 \in DOMAIN historical_sessions_map
  /\ Len(historical_sessions_map[F1]) = 5
  /\ Cardinality(DOMAIN store) = 5
  /\ Len(trace.candidates) > 0
  /\ trace.candidates[1].original_idx = 2
  /\ cfg.context_before = 1
  /\ cfg.context_after = 1

C7_Defaults ==
  /\ cfg.retrieval_count = DEFAULT_RETRIEVAL_COUNT
  /\ cfg.candidate_multiplier = DEFAULT_CANDIDATE_MULTIPLIER

C7_FirstBlock == [anchor |-> 1, at |-> <<<<F1, 1>>, <<F1, 2>>, <<F1, 3>>>>]

\* C7 (window scenario), as the specification states it.  With the other
\* settings at their defaults the call yields exactly one block, the messages
\* at indices 1, 2, 3 in that order, and no other message.
C7_ExactlyOneBlock ==
  (C7_Scenario /\ C7_Defaults) =>
    /\ trace.scan.blocks = <<C7_FirstBlock>>
    /\ Len(ret.list) = 3

\* C7, amended.  The first block is the messages at indices 1, 2, 3 in that
\* order.  It is the only block when retrieval_count is 1.  With the default
\* retrieval_count 3 and candidate multiplier 3 all five entries are
\* candidates, and after the first block the candidates at indices 0 and 4
\* give one block each, of that one message, in the order the store ranks them.
C7_FirstBlockThenRest ==
  C7_Scenario =>
    /\ trace.scan.blocks[1] = C7_FirstBlock
    /\ [k \in 1..3 |-> trace.scan.origin[k].original_idx] = <<1, 2, 3>>
    /\ [k \in 1..3 |-> ret.list[k].content] =
         [k \in 1..3 |-> Contextualized(historical_sessions_map[F1][k + 1]).content]
    /\ cfg.retrieval_count = 1 => (Len(trace.scan.blocks) = 1 /\ Len(ret.list) = 3)
    /\ C7_Defaults =>
         /\ Len(trace.scan.blocks) = 3
         /\ Len(ret.list) = 5
         /\ {trace.scan.blocks[2].at, trace.scan.blocks[3].at}
              = {<<<<F1, 0>>>>, <<<<F1, 4>>>>}

\* the scenario at the defaults: five messages come back
C7_Witness ==
  /\ C7_Scenario
  /\ C7_Defaults
  /\ Len(ret.list) = 5
  /\ trace.candidates[2].original_idx = 4

\* ===================================================================== C8

\* C8 (assembler on empty retrieval).  When the retrieval yields no message,
\* prepare_rag_messages returns the empty list whatever prefix and suffix are
\* configured: no system message is emitted on its own.
C8_EmptyRetrieval ==
  (op = "prepare_rag_messages" /\ Len(trace.retrieved) = 0) => ret.list = <<>>

\* a retrieval that ran without failure and found nothing, every candidate
\* being stale, with a prefix and a suffix configured
C8_Witness ==
  /\ op = "prepare_rag_messages"
  /\ trace.queries = 1
  /\ trace.failure = "none"
  /\ ~trace.caught
  /\ Len(trace.retrieved) = 0
  /\ cfg.prefix = DEFAULT_PREFIX
  /\ cfg.suffix = DEFAULT_PREFIX
  /\ ret.list = <<>>

\* ===================================================================== C9

\* C9 (assembler on non-empty retrieval), as the specification states it.
\* The output is the prefix as a system message if the prefix is not the
\* empty string, then the retrieved messages in their order, then the suffix
\* as a system message if the suffix is not the empty string.
C9_NonEmptyPromptsEmitted ==
  (op = "prepare_rag_messages" /\ Len(trace.retrieved) > 0) =>
    ret.list =
      (IF cfg.prefix # "" THEN <<[role |-> "system", content |-> cfg.prefix]>> ELSE <<>>)
        \o trace.retrieved
        \o (IF cfg.suffix # "" THEN <<[role |-> "system", content |-> cfg.suffix]>> ELSE <<>>)

\* C9, amended.  The output is the prefix as a system message if the prefix
\* holds a character that is not whitespace, then the retrieved messages in
\* their order, then the suffix as a system message under the same condition;
\* an empty or whitespace-only prefix or suffix gives no message.
C9_NonBlankPromptsEmitted ==
  (op = "prepare_rag_messages" /\ Len(trace.retrieved) > 0) =>
    LET nonblank(s) == \E i \in 1..Len(s) : SubSeq(s, i, i) \notin {" ", "\t", "\n"}
    IN  ret.list =
          (IF nonblank(cfg.prefix)
           THEN <<[role |-> "system", content |-> cfg.prefix]>> ELSE <<>>)
            \o trace.retrieved
            \o (IF nonblank(cfg.suffix)
                THEN <<[role |-> "system", content |-> cfg.suffix]>> ELSE <<>>)

\* a prefix with text and a whitespace-only suffix: the output starts with
\* the prefix message and ends with the last retrieved message
C9_Witness ==
  /\ op = "prepare_rag_messages"
  /\ Len(trace.retrieved) > 0
  /\ cfg.prefix = DEFAULT_PREFIX
  /\ cfg.suffix = " "
  /\ ret.list[1] = [role |-> "system", content |-> DEFAULT_PREFIX]
  /\ Len(ret.list) = Len(trace.retrieved) + 1
  /\ ret.list[Len(ret.list)] = trace.retrieved[Len(trace.retrieved)]

\* ==================================================================== C10

\* what holds of a state for the health gate
C10_Gate ==
  /\ (trace.embed_calls > 0 \/ trace.upserts > 0) => health_ok
  /\ Cardinality(DOMAIN store) > 0 => health_ok
  /\ op = "initialize" =>
       /\ ~ret.ok <=> phase = "failed"
       /\ (~health_ok \/ chroma_collection = None) => ~ret.ok
  /\ phase = "failed" =>
       /\ chroma_collection = None
       /\ op \in {"get_relevant_messages", "prepare_rag_messages"} =>
            (ret.list = <<>> /\ ~raised)
       /\ op = "add_messages_to_index" => (~ret.ok /\ ~raised)
       /\ op # "initialize" =>
            /\ trace.embed_calls = 0
            /\ trace.upserts = 0
            /\ trace.queries = 0
            /\ trace.counts = 0

\* C10 (health gate and self-disable), for an instance on which initialize()
\* runs once, as the class's usage states.  No embedding request and no
\* upsert is issued unless the service has answered the probe of initialize()
\* with 200 and status ok.  When the probe is not answered so, or the vector
\* store cannot be opened, initialize() returns False; from then on the
\* instance stays disabled, the collection is not written, every
\* get_relevant_messages and prepare_rag_messages call returns the empty
\* list, and every add_messages_to_index call returns False, without a
\* request to the embedding service or the store.
C10_HealthGate ==
  /\ []C10_Gate
  /\ [][phase = "failed" => (phase' = "failed" /\ store' = store)]_vars

\* on a disabled instance with a session file on disk and a service that
\* never answered the probe, a retrieval with a query returns the empty list
C10_Witness ==
  /\ phase = "failed"
  /\ USE_RAG
  /\ ~health_ok
  /\ DOMAIN files # {}
  /\ op = "get_relevant_messages"
  /\ arg.query = "q"
  /\ ret.list = <<>>

\* ==================================================================== C11

\* C11 (all-or-nothing on embedding failure), as the specification states
\* it.  When the embedding request of add_messages_to_index is not answered
\* with usable embeddings (no answer, a rejected status, a body without
\* them), the call returns False, raising nothing, and the collection after
\* the call is the collection before it.
C11_AllOrNothing ==
  [][ ( /\ op' = "add_messages_to_index"
        /\ trace'.embed_calls = 1
        /\ trace'.embed_outcome # "ok" )
      => ( /\ ~ret'.ok
           /\ ~raised'
           /\ store' = store ) ]_vars

\* ==================================================================== C12

\* C12 (per-character isolation).  Whatever one instance loads, saves,
\* indexes and retrieves, the collection, the history directory and the
\* in-memory maps of every other character stay as that character's instance
\* left them, and so it finds them when it acts again; entries go to the
\* acting character's collection alone; a retrieval emits only messages of
\* the acting character's own sessions.
C12_Isolation ==
  /\ \A p \in DOMAIN others.instances :
       LET left == others.left[p]
           self == others.instances[p]
       IN  /\ Get(others.collections, CHROMA_COLLECTION_NAME(p), EmptyMap) = left.store
           /\ Get(others.directories, history_path(p), EmptyMap) = left.files
           /\ self.historical_sessions_map = left.historical_sessions_map
           /\ self.flat_historical_messages = left.flat_historical_messages
  /\ (op = "switch" /\ character_id \in DOMAIN others.left) =>
       LET left == others.left[character_id]
       IN  /\ store = left.store
           /\ files = left.files
           /\ historical_sessions_map = left.historical_sessions_map
           /\ flat_historical_messages = left.flat_historical_messages
  /\ \A id \in DOMAIN store :
       \E s \in OwnSessions(character_id) : store[id].document = s[1].content
  /\ op = "get_relevant_messages" =>
       \A k \in DOMAIN trace.scan.origin :
         \E s \in OwnSessions(character_id) :
           trace.scan.origin[k].content = s[1].content

\* both characters have indexed a session under the same file name, and a
\* retrieval of character 2 returns its own message
C12_Witness ==
  /\ character_id = 2
  /\ op = "get_relevant_messages"
  /\ Len(ret.list) = 1
  /\ Cardinality(DOMAIN store) = 1
  /\ Cardinality(DOMAIN Get(others.collections, CHROMA_COLLECTION_NAME(1), EmptyMap)) = 1
  /\ F1 \in DOMAIN historical_sessions_map
  /\ F1 \in DOMAIN others.instances[1].historical_sessions_map

\* ==================================================================== C13

\* the files of the directory that hold a non-empty list of message objects
WellFormed(disk) ==
  {f \in DOMAIN disk : /\ disk[f].kind = "list"
                       /\ Len(disk[f].data) > 0
                       /\ \A i \in DOMAIN disk[f].data : IsObject(disk[f].data[i])}

\* C13 (malformed session files are never fatal), as the specification
\* states it.  When the health probe, the vector store and the embedding
\* service all do their part, initialize() returns True whatever the files of
\* the history directory hold: the files that are no JSON, no list, or a list
\* of elements that are no message objects are skipped, and the sessions of
\* the well-formed files are in the map and indexed.
C13_MalformedFilesSkipped ==
  ( /\ op = "initialize"
    /\ health_ok
    /\ trace.probes = 1
    /\ trace.failure = "none"
    /\ trace.embed_outcome \in {"ok", "none"} )
  => ( /\ ret.ok
       /\ chroma_collection = Collection
       /\ historical_sessions_map =
            [f \in WellFormed(files) |-> messages_with_metadata(f, json_load(files[f]))]
       /\ \A f \in WellFormed(files) :
            \A i \in DOMAIN historical_sessions_map[f] :
              LET msg == historical_sessions_map[f][i]
              IN  valid_for_index(msg) => IndexEntry(msg).id \in DOMAIN store )

\* ==================================================================== C14

\* the positions of a batch whose message has a role and non-empty content
C14_Valid(msgs) ==
  {i \in DOMAIN msgs : /\ msgs[i].role \notin {None, ""}
                       /\ msgs[i].content \notin {None, ""}}

C14_Id(msg) == message_id(msg._source_file, msg._original_idx, msg.role, msg.content)

\* C14 (invalid messages are skipped, not fatal to the batch).  A call of
\* add_messages_to_index on a batch with at least one valid message, whose
\* embedding call and upserts succeed, returns True and leaves the collection
\* with exactly one new-or-replaced entry per valid message, holding that
\* message's content, role, source file and original index, and with no entry
\* for an invalid message; every other entry is untouched.
C14_InvalidSkipped ==
  [][ ( /\ op' = "add_messages_to_index"
        /\ trace'.embed_outcome = "ok"
        /\ trace'.failure = "none" )
      => LET msgs == arg'.messages
             valid == C14_Valid(msgs)
             ids == {C14_Id(msgs[i]) : i \in valid}
         IN  /\ ret'.ok
             /\ ~raised'
             /\ Cardinality(ids) = Cardinality(valid)
             /\ DOMAIN store' = (DOMAIN store) \cup ids
             /\ \A id \in (DOMAIN store) \ ids : store'[id] = store[id]
             /\ \A i \in valid :
                  store'[C14_Id(msgs[i])] =
                    [document |-> msgs[i].content,
                     metadata |-> [role |-> msgs[i].role,
                                   source_file |-> msgs[i]._source_file,
                                   original_idx |-> msgs[i]._original_idx]] ]_vars

\* a batch of an invalid and a valid message was indexed: one entry
C14_Witness ==
  /\ op = "add_messages_to_index"
  /\ ret.ok
  /\ Len(arg.messages) = 2
  /\ Cardinality(C14_Valid(arg.messages)) = 1
  /\ Cardinality(DOMAIN store) = 1

\* ==================================================================== C15

\* the messages at the places of the blocks b.., one block after the other
RECURSIVE C15_Concatenation(_, _, _)
C15_Concatenation(smap, blocks, b) ==
  IF b > Len(blocks) THEN <<>>
  ELSE [k \in DOMAIN blocks[b].at |->
          Contextualized(PyGet(smap[blocks[b].at[k][1]], blocks[b].at[k][2]))]
         \o C15_Concatenation(smap, blocks, b + 1)

\* C15 (output ordering).  The list get_relevant_messages returns is its
\* blocks one after the other, in the order in which the vector store ranked
\* their anchor candidates; each block holds messages of its anchor's session
\* in strictly increasing original index.
C15_OutputOrdering ==
  (op = "get_relevant_messages" /\ ~raised) =>
    LET blocks == trace.scan.blocks
    IN  /\ \A b, d \in DOMAIN blocks : b < d => blocks[b].anchor < blocks[d].anchor
        /\ \A b \in DOMAIN blocks :
             LET at == blocks[b].at
                 anchor == trace.candidates[blocks[b].anchor]
             IN  /\ Len(at) > 0
                 /\ \A k \in DOMAIN at : at[k][1] = anchor.source_file
                 /\ \A k, l \in DOMAIN at : k < l => at[k][2] < at[l][2]
        /\ ret.list = C15_Concatenation(historical_sessions_map, blocks, 1)

\* two blocks, the better-ranked anchor being the later message of the session
C15_Witness ==
  /\ op = "get_relevant_messages"
  /\ ~raised
  /\ Len(trace.scan.blocks) = 2
  /\ Len(ret.list) = 2
  /\ trace.scan.blocks[1].at[1][1] = trace.scan.blocks[2].at[1][1]
  /\ trace.scan.blocks[1].at[1][2] > trace.scan.blocks[2].at[1][2]

\* ==================================================================== C16

\* C16 (sessions are new files, never mutated), as the specification states
\* it.  A successful add_session_to_history that computes its own path writes
\* a file that was not there before, and leaves every file and every entry of
\* the session map that was there as it was.
C16_NewFilesOnly ==
  [][ ( /\ op' = "add_session_to_history"
        /\ arg'.path = None
        /\ ret'.path # None )
      => ( /\ ret'.path \notin DOMAIN files
           /\ \A f \in DOMAIN files : f \in DOMAIN files' /\ files'[f] = files[f]
           /\ \A f \in DOMAIN historical_sessions_map :
                /\ f \in DOMAIN historical_sessions_map'
                /\ historical_sessions_map'[f] = historical_sessions_map[f] ) ]_vars

\* ==================================================================== C17

\* the non-system messages of a list, in their order
C17_Kept(session_messages) ==
  SelectSeq(session_messages, LAMBDA msg : msg.role # "system")

\* C17 (system messages are never persisted).  Whatever list
\* add_session_to_history is given: a file it writes in full, the session it
\* puts in the session map, the messages it appends to the flat list and the
\* entries it adds to the collection are the non-system messages of the list,
\* in their order, and a save that returns a path has done all of these; a
\* list that is empty or holds system messages alone leaves the files, the
\* maps and the collection as they were, and no embedding is asked for.
C17_NoSystemMessages ==
  [][ op' = "add_session_to_history" =>
      LET kept == C17_Kept(arg'.messages)
          path == IF arg'.path = None THEN F1 ELSE arg'.path
          annotated == messages_with_metadata(path, kept)
      IN  IF Len(kept) = 0
          THEN /\ ret'.path = None
               /\ files' = files
               /\ historical_sessions_map' = historical_sessions_map
               /\ flat_historical_messages' = flat_historical_messages
               /\ store' = store
               /\ trace'.embed_calls = 0
          ELSE /\ \A f \in DOMAIN files' :
                    (f \notin DOMAIN files \/ files'[f] # files[f])
                      => f = path /\ files'[f] \in {JsonList(kept), InvalidJson}
               /\ \A f \in DOMAIN historical_sessions_map' :
                    ( \/ f \notin DOMAIN historical_sessions_map
                      \/ historical_sessions_map'[f] # historical_sessions_map[f] )
                      => f = path /\ historical_sessions_map'[f] = annotated
               /\ flat_historical_messages' \in
                    {flat_historical_messages, flat_historical_messages \o annotated}
               /\ \A id \in DOMAIN store' :
                    (id \notin DOMAIN store \/ store'[id] # store[id])
                      => \E i \in DOMAIN annotated :
                           /\ store'[id].document = annotated[i].content
                           /\ store'[id].metadata.role = annotated[i].role
                           /\ store'[id].metadata.role # "system"
               /\ ret'.path # None =>
                    /\ ret'.path = path
                    /\ files'[path] = JsonList(kept)
                    /\ historical_sessions_map'[path] = annotated
                    /\ flat_historical_messages' = flat_historical_messages \o annotated ]_vars

\* a list of a system message and a user message was saved and indexed: the
\* file, the map and the collection hold the user message alone
C17_Witness ==
  /\ op = "add_session_to_history"
  /\ arg.messages = <<S, A>>
  /\ ret.path # None
  /\ files[ret.path] = JsonList(<<A>>)
  /\ Len(historical_sessions_map[ret.path]) = 1
  /\ Cardinality(DOMAIN store) = 1

\* ==================================================================== C18

\* C18 (no partial session file), as the specification states it.  When a
\* step of the file system fails during add_session_to_history (creating the
\* directories, opening the file, writing the JSON), the call returns None and
\* the files are as they were before the call.
C18_NoPartialFile ==
  [][ ( /\ op' = "add_session_to_history"
        /\ trace'.failure \in {"makedirs_error", "open_error", "dump_error"} )
      => ( /\ ret'.path = None
           /\ files' = files ) ]_vars

\* ==================================================================== C19

\* the session being saved is in historical_sessions_map and not yet in
\* flat_historical_messages, or in both and its index call has not run
C19_HalfSaved ==
  /\ saving.step \in {"mapped", "extended"}
  /\ saving.path \in DOMAIN historical_sessions_map
  /\ historical_sessions_map[saving.path] = saving.messages
  /\ \/ /\ saving.step = "mapped"
        /\ \E i \in DOMAIN saving.messages :
             \A k \in DOMAIN flat_historical_messages :
               flat_historical_messages[k] # saving.messages[i]
     \/ /\ saving.step = "extended"
        /\ \E i \in DOMAIN saving.messages :
             /\ valid_for_index(saving.messages[i])
             /\ IndexEntry(saving.messages[i]).id \notin DOMAIN store

\* C19 (save-then-index is atomic with respect to retrieval), as the
\* specification states it.  No call of get_relevant_messages reads the
\* session map (looks up the candidates the collection returned) while a save
\* of the same instance has put its session in the session map and has not
\* yet put it in the flat list and in the collection.
C19_SaveAtomic ==
  [][ ( /\ op = "idle"
        /\ op' = "get_relevant_messages"
        /\ Len(trace'.candidates) > 0 )
      => ~C19_HalfSaved ]_vars

\* ==================================================================== C20

\* C20 (ID determinism and collision-freedom), as the specification states
\* it.  The id of a message is a function of its source file, original index,
\* role and content, and messages that differ in one of the four have
\* different ids: so an entry of the collection, once written, is only ever
\* written again with the same document and metadata, and indexing a message
\* never changes the entry of another one.
C20_NoCollision ==
  [][ \A id \in DOMAIN store : id \in DOMAIN store' /\ store'[id] = store[id] ]_vars

\* ==================================================================== C21

\* candidate i lies inside the window expanded for candidate a
C21_InsideWindow(i, a) ==
  LET cand == trace.candidates[i]
      anchor == trace.candidates[a]
      len == Len(historical_sessions_map[anchor.source_file])
  IN  /\ cand.source_file = anchor.source_file
      /\ start_idx(anchor.original_idx, cfg.context_before) <= cand.original_idx
      /\ cand.original_idx < end_idx(len, anchor.original_idx, cfg.context_after)

\* C21 (consumed candidates are skipped), as the specification states it.
\* In a retrieval, a candidate that lies inside the window expanded for an
\* earlier, higher-ranked candidate that opened a block opens no block itself.
C21_ConsumedSkipped ==
  (op = "get_relevant_messages" /\ ~raised) =>
    \A b, d \in DOMAIN trace.scan.blocks :
      b < d => ~C21_InsideWindow(trace.scan.blocks[d].anchor, trace.scan.blocks[b].anchor)

\* ==================================================================== C22

\* candidate i names a file that is no key of the session map, or an index
\* outside the session
C22_StaleHit(i) ==
  LET cand == trace.candidates[i]
  IN  \/ cand.source_file \notin DOMAIN historical_sessions_map
      \/ cand.original_idx < 0
      \/ cand.original_idx >= Len(historical_sessions_map[cand.source_file])

\* C22 (stale hits are skipped, not errors).  In a retrieval, a candidate
\* whose file is not in the session map or whose index is outside its session
\* is passed over: it anchors no block, so it adds no message and does not
\* count; it is not where the retrieval fails; and the scan goes on after it,
\* ending only when the candidates are exhausted or retrieval_count blocks
\* are complete.
C22_StaleSkipped ==
  op = "get_relevant_messages" =>
    LET scan == trace.scan
    IN  /\ \A i \in DOMAIN scan.fate : C22_StaleHit(i) => scan.fate[i] = "stale"
        /\ \A b \in DOMAIN scan.blocks : ~C22_StaleHit(scan.blocks[b].anchor)
        /\ scan.retrieved_blocks_count = Len(scan.blocks)
        /\ ~raised =>
             \/ Len(scan.fate) = Len(trace.candidates)
             \/ scan.retrieved_blocks_count >= cfg.retrieval_count

\* the best-ranked candidate was stale and the next one gave a block
C22_Witness ==
  /\ op = "get_relevant_messages"
  /\ ~raised
  /\ Len(trace.candidates) >= 2
  /\ C22_StaleHit(1)
  /\ trace.scan.fate[1] = "stale"
  /\ trace.scan.fate[2] = "block"
  /\ Len(ret.list) > 0

\* ==================================================================== C23

\* C23 (over-fetch size).  A retrieval with a non-empty query on a non-empty
\* collection that gets as far as the store query asks for exactly
\* min(retrieval_count * candidate_multiplier, count of the collection)
\* candidates, never more than the collection holds, and looks at no more
\* candidates than it asked for.
C23_OverFetch ==
  (op = "get_relevant_messages" /\ trace.queries = 1) =>
    LET product == cfg.retrieval_count * cfg.candidate_multiplier
        count == Cardinality(DOMAIN store)
    IN  /\ arg.query # ""
        /\ count > 0
        /\ trace.n_results = (IF product <= count THEN product ELSE count)
        /\ trace.n_results <= count
        /\ Len(trace.candidates) <= trace.n_results

\* the collection holds fewer entries than the product: all of them are asked for
C23_Witness ==
  /\ op = "get_relevant_messages"
  /\ trace.queries = 1
  /\ cfg.retrieval_count * cfg.candidate_multiplier > Cardinality(DOMAIN store)
  /\ trace.n_results = Cardinality(DOMAIN store)
  /\ Len(trace.candidates) = trace.n_results
  /\ trace.n_results >= 2

\* ==================================================================== C24

\* C24 (block counting and stop rule).  In a retrieval that does not fail,
\* the blocks counted are the windows that gave at least one message; a
\* window that gave none is no block and the scan goes on after it; with
\* fewer than retrieval_count blocks every fetched candidate was examined;
\* and once the retrieval_count-th block is complete no later candidate is
\* examined.
C24_StopRule ==
  (op = "get_relevant_messages" /\ ~raised /\ trace.queries = 1) =>
    LET scan == trace.scan
        blocks == scan.blocks
        with_messages == {b \in DOMAIN blocks : Len(blocks[b].at) > 0}
    IN  /\ with_messages = DOMAIN blocks
        /\ scan.retrieved_blocks_count = Cardinality(with_messages)
        /\ Cardinality(with_messages) <= cfg.retrieval_count
        /\ \A i \in DOMAIN scan.fate :
             scan.fate[i] = "empty" => \A b \in DOMAIN blocks : blocks[b].anchor # i
        /\ Cardinality(with_messages) < cfg.retrieval_count =>
             Len(scan.fate) = Len(trace.candidates)
        /\ Cardinality(with_messages) = cfg.retrieval_count =>
             Len(scan.fate) = blocks[Len(blocks)].anchor
        /\ Len(ret.list) > 0 <=> Len(blocks) > 0

\* a window without a new message was passed over and the next candidate
\* completed the last block, leaving nothing examined after it
C24_Witness ==
  /\ op = "get_relevant_messages"
  /\ ~raised
  /\ Len(trace.scan.blocks) = 2
  /\ cfg.retrieval_count = 2
  /\ \E i \in DOMAIN trace.scan.fate :
       /\ trace.scan.fate[i] = "empty"
       /\ i + 1 \in DOMAIN trace.scan.fate
       /\ trace.scan.fate[i + 1] = "block"

\* ==================================================================== C25

\* a message of the batch passes the test of the indexer
C25_SomeValid(msgs) ==
  \E i \in DOMAIN msgs : /\ msgs[i].role \notin {None, ""}
                          /\ msgs[i].content \notin {None, ""}

\* C25 (no automatic retry).  Every operation sends at most one request to
\* the embedding service and at most one query to the store, also when the
\* request or the query fails.  add_messages_to_index on an open collection
\* sends its one request exactly when the batch holds a valid message.  A
\* retrieval with an empty query or on an empty collection sends neither a
\* request nor a query, and one whose embedding request failed sends no query.
C25_NoRetry ==
  /\ trace.embed_calls <= 1
  /\ trace.queries <= 1
  /\ op = "add_messages_to_index" =>
       ( trace.embed_calls = 1 <=>
           (USE_RAG /\ chroma_collection # None /\ C25_SomeValid(arg.messages)) )
  /\ ( /\ op \in {"get_relevant_messages", "prepare_rag_messages"}
       /\ (arg.query = "" \/ DOMAIN store = {}) )
       => (trace.embed_calls = 0 /\ trace.queries = 0)
  /\ ( /\ op \in {"get_relevant_messages", "prepare_rag_messages"}
       /\ trace.embed_outcome \notin {"ok", "none"} )
       => (trace.embed_calls = 1 /\ trace.queries = 0)
  /\ ( /\ op \in {"add_messages_to_index", "add_session_to_history", "initialize"}
       /\ trace.embed_outcome \notin {"ok", "none"} )
       => (trace.embed_calls = 1 /\ trace.upserts <= 1)

\* a retrieval whose one embedding request failed in transport, and which
\* gave up without a query
C25_Witness ==
  /\ op = "get_relevant_messages"
  /\ trace.embed_outcome = "transport_error"
  /\ trace.embed_calls = 1
  /\ trace.queries = 0
  /\ ret.list = <<>>
  /\ DOMAIN store # {}

\* ==================================================================== C26

\* C26 (join-key invariant).  After any sequence of loads and saves, the
\* message at position i of the session that historical_sessions_map keeps
\* under the file name f carries _source_file = f and _original_idx = i
\* (positions counted from 0).
C26_JoinKey ==
  \A f \in DOMAIN historical_sessions_map :
    \A i \in DOMAIN historical_sessions_map[f] :
      /\ historical_sessions_map[f][i]._source_file = f
      /\ historical_sessions_map[f][i]._original_idx = i - 1

\* a session of two messages was loaded at start and another one saved
\* under a second name
C26_Witness ==
  /\ op = "add_session_to_history"
  /\ ret.path = F2
  /\ DOMAIN historical_sessions_map = {F1, F2}
  /\ Len(historical_sessions_map[F1]) = 2
  /\ Len(historical_sessions_map[F2]) = 2

\* ==================================================================== C27

\* the file f holds what json.dump writes for the session the map kept under f
C27_Saved(smap, f) ==
  /\ f \in DOMAIN files
  /\ files[f] = JsonList([i \in DOMAIN smap[f] |-> Msg(smap[f][i].role, smap[f][i].content)])

C28_EntriesAgree ==
  \A id \in DOMAIN store :
    LET entry == store[id]
        f == entry.metadata.source_file
        idx == entry.metadata.original_idx
    IN  ( /\ f \in DOMAIN historical_sessions_map
          /\ 0 <= idx
          /\ idx < Len(historical_sessions_map[f]) )
        => ( /\ historical_sessions_map[f][idx + 1].content = entry.document
             /\ historical_sessions_map[f][idx + 1].role = entry.metadata.role )

\* ==================================================================== C29

\* C29 (retrieval is read-only).  A call of get_relevant_messages or of
\* prepare_rag_messages, whatever it is asked and however it ends, leaves
\* historical_sessions_map with every message in it, the flat list of
\* messages, the collection and the files as they were.
C29_ReadOnly ==
  [][ op' \in {"get_relevant_messages", "prepare_rag_messages"} =>
        /\ historical_sessions_map' = historical_sessions_map
        /\ flat_historical_messages' = flat_historical_messages
        /\ store' = store
        /\ files' = files
        /\ chroma_collection' = chroma_collection ]_vars

\* a retrieval that returned two messages of a session the map still holds
C29_Witness ==
  /\ op = "get_relevant_messages"
  /\ Len(ret.list) = 2
  /\ \E f \in DOMAIN historical_sessions_map :
       /\ Len(historical_sessions_map[f]) = 2
       /\ trace.scan.used = {<<f, 0>>, <<f, 1>>}
       /\ historical_sessions_map[f][1].content = "a"
       /\ historical_sessions_map[f][2].content = "b"

\* ==================================================================== C30

\* C30 (a successfully saved session is indexed), as the specification
\* states it.  On an instance whose initialize() returned True, when
\* add_session_to_history returns a file path, every message of the saved
\* session that has a role and non-empty content has its entry in the
\* collection.
C30_SavedIsIndexed ==
  (op = "add_session_to_history" /\ ret.path # None /\ phase = "ok") =>
    \A i \in DOMAIN historical_sessions_map[ret.path] :
      LET msg == historical_sessions_map[ret.path][i]
      IN  (msg.role \notin {None, ""} /\ msg.content \notin {None, ""})
            => IndexEntry(msg).id \in DOMAIN store

\* ========================================================== large batches

\* Memory enabled, the collection empty.  One file holds a session of one
\* message, of exactly one batch of messages, or of one batch and one more
\* message, so that the upsert loop of add_messages_to_index runs a second
\* time; the store may fail at the first or at the second upsert.
BigSession(msg, n) == [i \in 1..n |-> msg]

BatchLengths == {1, UPSERT_BATCH_SIZE, UPSERT_BATCH_SIZE + 1}

BatchSessions == {BigSession(msg, n) : msg \in {A, B}, n \in BatchLengths}

BatchDisks == {[f \in {F2} |-> JsonList(s)] : s \in BatchSessions}

InitBatch == Constructed({TRUE}, BatchDisks, {EmptyMap}) /\ Alone

NextBatch ==
  \/ Initialize
  \/ AddMessagesToIndex
  \/ Return

SpecBatch == InitBatch /\ [][NextBatch]_vars

\* ==================================================================== C31

\* C31 (failed indexing changes nothing in the store), as the specification
\* states it.  Whenever add_messages_to_index returns False, the collection
\* holds exactly the entries it held before the call, also when the upsert
\* that fails is the one of a batch after the first batch of the call.
C31_FailedIndexingChangesNothing ==
  [][ (op = "idle" /\ op' = "add_messages_to_index" /\ ~raised' /\ ~ret'.ok)
        => store' = store ]_vars

\* ==================================================================== C32

\* C32 (a failed save changes nothing in memory), as the specification
\* states it.  Whenever add_session_to_history returns None,
\* historical_sessions_map and flat_historical_messages are what they were
\* before the call: a session gets into the maps only by a call that
\* returns a path.
C32_FailedSaveChangesNothing ==
  [][ (op = "idle" /\ op' = "add_session_to_history" /\ ret'.path = None)
        => ( /\ historical_sessions_map' = historical_sessions_map
             /\ flat_historical_messages' = flat_historical_messages ) ]_vars

====
